---- MODULE Spec2Model ----
(***************************************************************************)
(* Model of src/main.py: the FastAPI service "CHATIA-CAU-FAISS + Sistema   *)
(* de Ofertas".  The five /api/ofertas handlers are modelled; the handler  *)
(* procesar_pliego is split at its for-loop so that each iteration of the  *)
(* windowing (chunking) loop is one step.  A text is a sequence of         *)
(* one-character strings.  An Optional[int] is <<>> (None) or <<v>>.       *)
(***************************************************************************)
EXTENDS Integers, Sequences, FiniteSets, TLC

VARIABLES
    pc,            \* "idle" | "chunking" | "done": position of the handler in flight
    request,       \* the request being handled / handled last
    offer_id,      \* procesar_pliego local
    tipo_oferta,   \* procesar_pliego local
    tipo_cliente,  \* procesar_pliego local
    sector,        \* procesar_pliego local
    chunk_size,    \* procesar_pliego local (effective window size)
    overlap,       \* procesar_pliego local (effective overlap)
    i,             \* procesar_pliego loop variable
    chunks,        \* procesar_pliego local: the windows emitted so far
    response,      \* the response of the call handled last
    delivered,     \* client side: the procesarPliego result the client kept last
    reference      \* client side: one earlier lookup the client kept, with its answer

vars == << pc, request, offer_id, tipo_oferta, tipo_cliente, sector,
           chunk_size, overlap, i, chunks, response, delivered, reference >>

locals == << offer_id, tipo_oferta, tipo_cliente, sector, chunk_size, overlap, i, chunks >>

(***************************************************************************)
(* Bounds of the model.                                                    *)
(***************************************************************************)
MaxLen == 4         \* longest exhaustively enumerated text over SegAlphabet
MaxParam == 4       \* largest explicit chunk_size / chunk_overlap
MaxNeg == 2         \* explicit chunk_size / chunk_overlap go down to -MaxNeg
Margin == 1         \* long texts: lengths within Margin of the default stride and size
MaxTokens == 2      \* classification texts: at most MaxTokens vocabulary tokens
MaxClock == 1       \* datetime.now() takes a value in 0..MaxClock
MaxPage == 5        \* listarOfertas: limit, offset in -MaxNeg..MaxPage

(***************************************************************************)
(* Program constants.                                                      *)
(***************************************************************************)
DefaultChunkSize == 2000
DefaultChunkOverlap == 200
EstadoTotalChunks == 5
DefaultLimit == 20
DefaultOffset == 0
SizeEstimate == 15000

None == << >>
Some(v) == << v >>

Min(a, b) == IF a < b THEN a ELSE b
Max(a, b) == IF a < b THEN b ELSE a

(***************************************************************************)
(* Python built-ins used by the handlers.                                  *)
(***************************************************************************)

\* `x or d` on an Optional[int]: None and 0 are falsy.
PyOr(opt, d) == IF opt = None THEN d ELSE IF opt[1] = 0 THEN d ELSE opt[1]

\* A slice index clamped as s[a:b] does for a sequence of length n.
PyIndex(x, n) == IF x < 0 THEN Max(x + n, 0) ELSE Min(x, n)

\* s[a:b]
PySlice(s, a, b) ==
    LET lo == PyIndex(a, Len(s))
        hi == PyIndex(b, Len(s))
    IN  IF hi <= lo THEN << >> ELSE SubSeq(s, lo + 1, hi)

\* str.isspace() on one character (the ASCII white space).
Whitespace == { " ", "\t", "\n", "\r", "\f" }

\* bool(s.strip()): the text has a character that is not white space.
PyStripTruthy(s) == \E k \in 1..Len(s) : s[k] \notin Whitespace

UpperLetters == << "A","B","C","D","E","F","G","H","I","J","K","L","M",
                   "N","O","P","Q","R","S","T","U","V","W","X","Y","Z" >>
LowerLetters == << "a","b","c","d","e","f","g","h","i","j","k","l","m",
                   "n","o","p","q","r","s","t","u","v","w","x","y","z" >>

LowerChar(c) ==
    IF \E k \in 1..Len(UpperLetters) : UpperLetters[k] = c
    THEN LowerLetters[CHOOSE k \in 1..Len(UpperLetters) : UpperLetters[k] = c]
    ELSE c

\* str.lower()
PyLower(s) == [k \in 1..Len(s) |-> LowerChar(s[k])]

\* `w in s` for strings: w occurs as a substring of s.
PyIn(w, s) ==
    \E k \in 0..(Len(s) - Len(w)) : SubSeq(s, k + 1, k + Len(w)) = w

\* any(word in s for word in words)
AnyWordIn(words, s) == \E w \in words : PyIn(w, s)

\* range(0, stop, step) raises ValueError when step is 0.
PyRangeRaisesNever(step) == FALSE
PyRangeRaises(step) == step = 0

\* range(0, stop, step) still has the element i.
PyRangeHas(idx, stop, step) ==
    IF step < 0 THEN idx > stop ELSE idx < stop

(***************************************************************************)
(* Keyword lists of procesar_pliego.                                       *)
(***************************************************************************)
CloudWords ==
    { <<"c","l","o","u","d">>,
      <<"a","z","u","r","e">>,
      <<"a","w","s">>,
      <<"n","u","b","e">>,
      <<"s","a","a","s">>,
      <<"p","a","a","s">>,
      <<"i","a","a","s">> }

SeguridadWords ==
    { <<"s","e","g","u","r","i","d","a","d">>,
      <<"c","i","b","e","r","s","e","g","u","r","i","d","a","d">>,
      <<"f","i","r","e","w","a","l","l">>,
      <<"a","n","t","i","v","i","r","u","s">>,
      <<"e","n","s">>,
      <<"e","s","q","u","e","m","a">> }

TelcoWords ==
    { <<"t","e","l","c","o">>,
      <<"t","e","l","e","c","o","m","u","n","i","c","a","c","i","o","n","e","s">>,
      <<"5","g">>,
      <<"f","i","b","r","a">>,
      <<"r","e","d">>,
      <<"c","o","n","e","c","t","i","v","i","d","a","d">> }

PublicoWords ==
    { <<"a","d","m","i","n","i","s","t","r","a","c","i","o","n">>,
      <<"p","u","b","l","i","c","o">>,
      <<"a","y","u","n","t","a","m","i","e","n","t","o">>,
      <<"m","i","n","i","s","t","e","r","i","o">>,
      <<"j","u","n","t","a">>,
      <<"d","i","p","u","t","a","c","i","o","n">> }

SaludWords ==
    { <<"s","a","l","u","d">>,
      <<"s","a","n","i","t","a","r","i","o">>,
      <<"h","o","s","p","i","t","a","l">>,
      <<"c","l","i","n","i","c","a">> }

EducacionWords ==
    { <<"e","d","u","c","a","c","i","o","n">>,
      <<"u","n","i","v","e","r","s","i","d","a","d">>,
      <<"c","o","l","e","g","i","o">>,
      <<"f","o","r","m","a","c","i","o","n">> }

FinancieroWords ==
    { <<"f","i","n","a","n","c","i","e","r","o">>,
      <<"b","a","n","c","o">>,
      <<"f","i","n","t","e","c","h">>,
      <<"s","e","g","u","r","o","s">> }

IndustrialWords ==
    { <<"i","n","d","u","s","t","r","i","a">>,
      <<"m","a","n","u","f","a","c","t","u","r","i","n","g">>,
      <<"p","r","o","d","u","c","c","i","o","n">> }

(***************************************************************************)
(* Classification (main.py 160-188).                                       *)
(***************************************************************************)
TipoOfertaSecurityFirst(content_lower) ==
    IF AnyWordIn(SeguridadWords, content_lower) THEN "Seguridad"
    ELSE IF AnyWordIn(CloudWords, content_lower) THEN "Cloud"
    ELSE IF AnyWordIn(TelcoWords, content_lower) THEN "Telco"
    ELSE "DX"
TipoOferta(content_lower) ==
    IF AnyWordIn(CloudWords, content_lower) THEN "Cloud"
    ELSE IF AnyWordIn(SeguridadWords, content_lower) THEN "Seguridad"
    ELSE IF AnyWordIn(TelcoWords, content_lower) THEN "Telco"
    ELSE "DX"

TipoCliente(content_lower) ==
    IF AnyWordIn(PublicoWords, content_lower) THEN "Público" ELSE "Privado"

SectorOtherDefault(content_lower) ==
    IF AnyWordIn(SaludWords, content_lower) THEN "Salud"
    ELSE IF AnyWordIn(EducacionWords, content_lower) THEN "Educación"
    ELSE IF AnyWordIn(FinancieroWords, content_lower) THEN "Financiero"
    ELSE IF AnyWordIn(IndustrialWords, content_lower) THEN "Industrial"
    ELSE "Otros"
Sector(content_lower) ==
    IF AnyWordIn(SaludWords, content_lower) THEN "Salud"
    ELSE IF AnyWordIn(EducacionWords, content_lower) THEN "Educación"
    ELSE IF AnyWordIn(FinancieroWords, content_lower) THEN "Financiero"
    ELSE IF AnyWordIn(IndustrialWords, content_lower) THEN "Industrial"
    ELSE "General"

(***************************************************************************)
(* Responses.                                                              *)
(***************************************************************************)
NoRequest == [op |-> "none"]
NoResponse == [http |-> 0]
NoReference == [known |-> FALSE, request |-> NoRequest]
NoDelivery == [offer_id |-> << >>]

\* raise HTTPException(status_code=500, detail=str(e))
Http500(detail) == [http |-> 500, detail |-> detail]

Uuids == { "0a", "1b" }
Clock == 0..MaxClock

(***************************************************************************)
(* procesar_pliego (main.py 150-262).                                      *)
(***************************************************************************)

\* id of a window (main.py 199).
ChunkIdByIndex(emitted, idx, step) == (idx \div step) + 1
ChunkId(emitted, idx, step) == Len(emitted) + 1

\* end_pos of a window (main.py 203).
ChunkEndNoMin(idx, size, n) == idx + size
ChunkEnd(idx, size, n) == Min(idx + size, n)

\* One window record (main.py 198-204).
ChunkOneBased(emitted, content, idx, size, step) ==
    LET chunk_content == PySlice(content, idx, idx + size)
    IN  [ id        |-> ChunkId(emitted, idx, step),
          content   |-> chunk_content,
          size      |-> Len(chunk_content),
          start_pos |-> idx + 1,
          end_pos   |-> ChunkEnd(idx, size, Len(content)) ]
Chunk(emitted, content, idx, size, step) ==
    LET chunk_content == PySlice(content, idx, idx + size)
    IN  [ id        |-> ChunkId(emitted, idx, step),
          content   |-> chunk_content,
          size      |-> Len(chunk_content),
          start_pos |-> idx,
          end_pos   |-> ChunkEnd(idx, size, Len(content)) ]

\* The next loop index of range(0, n, step).
RangeNext(idx, step) == idx + step

\* The result record (main.py 207-255).
ProcesarResult(req, now) ==
    [ http |-> 200,
      offer_id |-> offer_id,
      status |-> "success",
      rfp_name |-> req.rfp_name,
      classification |->
          [ tipo_oferta |-> tipo_oferta,
            tipo_cliente |-> tipo_cliente,
            sector |-> sector,
            normativas |-> IF tipo_cliente = "Público"
                           THEN << "RGPD", "ENS" >> ELSE << "RGPD" >> ],
      chunks_created |-> Len(chunks),
      chunks_info |->
          [ total_chunks |-> Len(chunks),
            chunk_size |-> chunk_size,
            chunk_overlap |-> overlap,
            total_characters |-> Len(req.rfp_content) ],
      timestamp |-> now,
      auto_generation_result |-> IF req.auto_generate THEN "success" ELSE "absent" ]

\* Lines 153-195: id, classification, parameters, and the creation of the range.
ProcesarPliego(req) ==
    /\ pc = "idle"
    /\ request' = req
    /\ LET content_lower == PyLower(req.rfp_content)
       IN  /\ tipo_oferta' = TipoOferta(content_lower)
           /\ tipo_cliente' = TipoCliente(content_lower)
           /\ sector' = Sector(content_lower)
    /\ chunks' = << >>
    /\ chunk_size' = PyOr(req.chunk_size, DefaultChunkSize)
    /\ overlap' = PyOr(req.chunk_overlap, DefaultChunkOverlap)
    /\ i' = 0
    /\ IF PyRangeRaises(chunk_size' - overlap')
       THEN /\ response' = Http500("range() arg 3 must not be zero")
            /\ pc' = "done"
       ELSE /\ response' = NoResponse
            /\ pc' = "chunking"
    /\ \E u \in Uuids, now \in Clock : offer_id' = << u, now >>
    /\ UNCHANGED << delivered, reference >>

\* Lines 195-204: one iteration of the for-loop.
ChunkStep ==
    /\ pc = "chunking"
    /\ PyRangeHas(i, Len(request.rfp_content), chunk_size - overlap)
    /\ LET chunk_content == PySlice(request.rfp_content, i, i + chunk_size)
       IN  chunks' = IF PyStripTruthy(chunk_content)
                     THEN Append(chunks, Chunk(chunks, request.rfp_content, i,
                                               chunk_size, chunk_size - overlap))
                     ELSE chunks
    /\ i' = RangeNext(i, chunk_size - overlap)
    /\ UNCHANGED << pc, request, offer_id, tipo_oferta, tipo_cliente, sector,
                    chunk_size, overlap, response, delivered, reference >>

\* Lines 206-258: the range is exhausted; build and return the result.
ProcesarPliegoReturn ==
    /\ pc = "chunking"
    /\ ~ PyRangeHas(i, Len(request.rfp_content), chunk_size - overlap)
    /\ \E now \in Clock : response' = ProcesarResult(request, now)
    /\ pc' = "done"
    /\ UNCHANGED << request, offer_id, tipo_oferta, tipo_cliente, sector,
                    chunk_size, overlap, i, chunks, delivered, reference >>

\* The response is sent and the handler's frame is gone: nothing is kept.
Discard ==
    /\ pc' = "idle"
    /\ request' = NoRequest
    /\ offer_id' = << >>
    /\ tipo_oferta' = ""
    /\ tipo_cliente' = ""
    /\ sector' = ""
    /\ chunk_size' = 0
    /\ overlap' = 0
    /\ i' = 0
    /\ chunks' = << >>
    /\ response' = NoResponse

Finish ==
    /\ pc = "done"
    /\ Discard
    /\ UNCHANGED << delivered, reference >>

(***************************************************************************)
(* generar_oferta (main.py 264-301).                                       *)
(***************************************************************************)
GenerarOferta(req) ==
    /\ pc = "idle"
    /\ request' = req
    /\ \E now \in Clock :
         response' =
           [ http |-> 200,
             offer_id |-> req.offer_id,
             status |-> "success",
             resumen_ejecutivo |-> << "Propuesta integral para el proyecto", req.offer_id >>,
             timestamp |-> now ]
    /\ pc' = "done"
    /\ UNCHANGED << locals, delivered, reference >>

(***************************************************************************)
(* obtener_estado_oferta (main.py 303-332).                                *)
(***************************************************************************)
\* The classification block of the status record (main.py 313-317).
EstadoClassificationLinked(oid) ==
    IF delivered.offer_id = oid
    THEN [ tipo_oferta |-> delivered.classification.tipo_oferta,
           tipo_cliente |-> delivered.classification.tipo_cliente,
           sector |-> delivered.classification.sector ]
    ELSE [ tipo_oferta |-> "DX", tipo_cliente |-> "Público", sector |-> "General" ]
EstadoClassification(oid) ==
    [ tipo_oferta |-> "DX", tipo_cliente |-> "Público", sector |-> "General" ]

ObtenerEstadoOferta(req) ==
    /\ pc = "idle"
    /\ request' = req
    /\ \E now \in Clock :
         response' =
           [ http |-> 200,
             offer_id |-> req.offer_id,
             status |-> "completed",
             classification |-> EstadoClassification(req.offer_id),
             processing_date |-> now,
             chunks_info |-> [ total_chunks |-> EstadoTotalChunks, chunks_saved |-> TRUE ],
             final_offer_available |-> TRUE ]
    /\ pc' = "done"
    /\ UNCHANGED << locals, delivered, reference >>

(***************************************************************************)
(* listar_ofertas (main.py 334-378).                                       *)
(***************************************************************************)
\* ofertas_ejemplo (main.py 341-358).
OfertasEjemplo(u1, u2, now) ==
    << [ offer_id |-> << u1, "202412151200" >>,
         rfp_name |-> "Pliego_Transformacion_Digital.pdf",
         status |-> "completed",
         tipo_oferta |-> "DX",
         tipo_cliente |-> "Público",
         created_date |-> now ],
       [ offer_id |-> << u2, "202412141500" >>,
         rfp_name |-> "Pliego_Cloud_Migration.pdf",
         status |-> "processed",
         tipo_oferta |-> "Cloud",
         tipo_cliente |-> "Privado",
         created_date |-> now ] >>

\* pagination.has_more (main.py 368).
HasMoreInclusive(limit, offset, total) == offset + limit <= total
HasMore(limit, offset, total) == offset + limit < total

ListarOfertas(req) ==
    /\ pc = "idle"
    /\ request' = req
    /\ \E u1 \in Uuids, u2 \in Uuids, now \in Clock :
         LET ofertas_ejemplo == OfertasEjemplo(u1, u2, now)
         IN  response' =
               [ http |-> 200,
                 status |-> "success",
                 message |-> Len(ofertas_ejemplo),
                 offers |-> PySlice(ofertas_ejemplo, req.offset, req.offset + req.limit),
                 total_offers |-> Len(ofertas_ejemplo),
                 pagination |->
                     [ limit |-> req.limit,
                       offset |-> req.offset,
                       has_more |-> HasMore(req.limit, req.offset, Len(ofertas_ejemplo)) ] ]
    /\ pc' = "done"
    /\ UNCHANGED << locals, delivered, reference >>

(***************************************************************************)
(* recupera_fichero (main.py 380-407).                                     *)
(***************************************************************************)
RecuperaFichero(req) ==
    /\ pc = "idle"
    /\ request' = req
    /\ \E now \in Clock :
         response' =
           [ http |-> 200,
             offer_id |-> req.offer_id,
             status |-> "success",
             file_info |->
                 [ filename |-> << "oferta_", req.offer_id, ".md" >>,
                   file_type |-> req.file_type,
                   exists |-> TRUE,
                   size_estimate |-> SizeEstimate,
                   download_available |-> TRUE,
                   last_modified |-> now ],
             timestamp |-> now ]
    /\ pc' = "done"
    /\ UNCHANGED << locals, delivered, reference >>

(***************************************************************************)
(* The client.  It may keep what a call returned: the last procesarPliego  *)
(* result, and one lookup (obtenerEstadoOferta, listarOfertas) with the    *)
(* fields of its answer that are neither random nor a time.                *)
(***************************************************************************)
StableView(op, resp) ==
    IF op = "obtenerEstadoOferta" THEN [resp EXCEPT !.processing_date = 0]
    ELSE IF op = "listarOfertas"
    THEN [resp EXCEPT !.offers =
            [k \in 1..Len(resp.offers) |->
                [resp.offers[k] EXCEPT !.offer_id = << "", @[2] >>, !.created_date = 0]]]
    ELSE resp

ClientKeep ==
    /\ pc = "done"
    /\ \/ /\ request.op = "procesarPliego" /\ response.http = 200
          /\ delivered' = [ offer_id |-> response.offer_id,
                            classification |-> response.classification,
                            chunks_created |-> response.chunks_created ]
          /\ UNCHANGED reference
       \/ /\ request.op \in { "obtenerEstadoOferta", "listarOfertas" }
          /\ reference' = [ known |-> /\ request.op = "obtenerEstadoOferta"
                                      /\ delivered.offer_id = request.offer_id,
                            request |-> request,
                            answer |-> StableView(request.op, response) ]
          /\ UNCHANGED delivered
    /\ Discard

(***************************************************************************)
(* Requests.                                                               *)
(***************************************************************************)
PliegoRequest(content, size, ovl, auto) ==
    [ op |-> "procesarPliego", rfp_content |-> content, rfp_name |-> "pliego.pdf",
      auto_generate |-> auto, chunk_size |-> size, chunk_overlap |-> ovl ]

TextsOver(alphabet, n) == UNION { [1..k -> alphabet] : k \in 0..n }

SegAlphabet == { "x", " " }

Params == { None } \cup { Some(v) : v \in (0 - MaxNeg)..MaxParam }

\* A text of n characters, the last w of them blanks.
LongText(n, w) == [k \in 1..n |-> IF k > n - w THEN " " ELSE "x"]

DefaultStride == DefaultChunkSize - DefaultChunkOverlap

LongLens ==
    ((DefaultStride - Margin)..(DefaultStride + Margin))
    \cup ((DefaultChunkSize - Margin)..(DefaultChunkSize + Margin))

LongTexts ==
    { LongText(n, 0) : n \in LongLens }
    \cup { LongText(n, Max(n - DefaultStride, 0)) : n \in LongLens }

SegRequests ==
    { PliegoRequest(t, s, o, TRUE) : t \in TextsOver(SegAlphabet, MaxLen),
                                     s \in Params, o \in Params }
    \cup { PliegoRequest(LongText(23, 0), Some(10), Some(5), TRUE) }

\* Requests that leave chunk_size and chunk_overlap to their defaults.
DefaultRequests ==
    { PliegoRequest(t, None, None, TRUE) :
          t \in TextsOver(SegAlphabet, MaxLen) \cup LongTexts }

\* Texts for the classifier: up to MaxTokens tokens of a vocabulary that holds a
\* keyword of every group, upper case, blanks, and pieces of a keyword.
Vocabulary ==
    { <<"C","l","o","u","d">>, <<"E","N","S">>, <<"r","e","d">>,
      <<"J","u","n","t","a">>, <<"s","a","l","u","d">>,
      <<"c","o","l","e","g","i","o">>, <<"b","a","n","c","o">>,
      <<"i","n","d","u","s","t","r","i","a">>,
      <<"a">>, <<"w","s">>, <<" ">>, <<"x">> }

RECURSIVE Concat(_)
Concat(ts) == IF ts = << >> THEN << >> ELSE Head(ts) \o Concat(Tail(ts))

ClassifyTexts == { Concat(ts) : ts \in TextsOver(Vocabulary, MaxTokens) }

\* Each text under the default parameters and under a stride of zero.
ClassifyRequests ==
    { PliegoRequest(t, s, s, TRUE) : t \in ClassifyTexts, s \in { None, Some(MaxParam) } }

\* The offer ids a client may ask about: any the service can issue, and one it cannot.
LookupIds == (Uuids \X Clock) \cup { << "zz", 0 >> }

OfferRequests == { [op |-> "generarOferta", offer_id |-> id] : id \in LookupIds }
StatusRequests == { [op |-> "obtenerEstadoOferta", offer_id |-> id] : id \in LookupIds }
FileRequests ==
    { [op |-> "recuperaFichero", offer_id |-> id, file_type |-> ft] :
          id \in LookupIds, ft \in { "oferta", "pliego" } }

ListRequest(limit, offset) == [op |-> "listarOfertas", limit |-> limit, offset |-> offset]

PageValues == ((0 - MaxNeg)..MaxPage) \cup { DefaultLimit, DefaultOffset }
PageRequests == { ListRequest(l, o) : l \in PageValues, o \in PageValues }

\* The calls of the whole-service specification.
ServiceTexts == { <<"C","l","o","u","d">>, <<"x"," ","J","u","n","t","a">> }
ServicePliegos ==
    { PliegoRequest(t, s, None, a) :
          t \in ServiceTexts, s \in { None, Some(MaxParam) }, a \in BOOLEAN }
ServicePages == { ListRequest(DefaultLimit, DefaultOffset), ListRequest(1, 0),
                  ListRequest(1, 1) }

(***************************************************************************)
(* Specifications.  A handler starts only when none is in flight (no       *)
(* handler awaits), so each next-state relation asks for pc = "idle"       *)
(* before it draws the request.                                            *)
(***************************************************************************)
Init ==
    /\ pc = "idle"
    /\ request = NoRequest
    /\ offer_id = << >>
    /\ tipo_oferta = ""
    /\ tipo_cliente = ""
    /\ sector = ""
    /\ chunk_size = 0
    /\ overlap = 0
    /\ i = 0
    /\ chunks = << >>
    /\ response = NoResponse
    /\ delivered = NoDelivery
    /\ reference = NoReference

\* The segmenter: procesarPliego over texts of x and blank and all parameters.
NextSegment ==
    \/ pc = "idle" /\ \E req \in SegRequests : ProcesarPliego(req)
    \/ ChunkStep
    \/ ProcesarPliegoReturn
    \/ Finish

SpecSegment == Init /\ [][NextSegment]_vars

\* The segmenter under its default parameters, on short and on long texts.
NextDefault ==
    \/ pc = "idle" /\ \E req \in DefaultRequests : ProcesarPliego(req)
    \/ ChunkStep
    \/ ProcesarPliegoReturn
    \/ Finish

SpecDefault == Init /\ [][NextDefault]_vars

\* The segmenter, its loop running on once started.
FairSpecSegment ==
    SpecSegment /\ WF_vars(ChunkStep) /\ WF_vars(ProcesarPliegoReturn)

\* The classifier: procesarPliego over the vocabulary's texts.
NextClassify ==
    \/ pc = "idle" /\ \E req \in ClassifyRequests : ProcesarPliego(req)
    \/ ChunkStep
    \/ ProcesarPliegoReturn
    \/ Finish

SpecClassify == Init /\ [][NextClassify]_vars

\* listarOfertas over all pages.
NextPages ==
    \/ pc = "idle" /\ \E req \in PageRequests : ListarOfertas(req)
    \/ Finish

SpecPages == Init /\ [][NextPages]_vars

\* The service: the five handlers, called in any order, and the client.
Next ==
    \/ pc = "idle" /\ \E req \in ServicePliegos : ProcesarPliego(req)
    \/ ChunkStep
    \/ ProcesarPliegoReturn
    \/ pc = "idle" /\ \E req \in OfferRequests : GenerarOferta(req)
    \/ pc = "idle" /\ \E req \in StatusRequests : ObtenerEstadoOferta(req)
    \/ pc = "idle" /\ \E req \in ServicePages : ListarOfertas(req)
    \/ pc = "idle" /\ \E req \in FileRequests : RecuperaFichero(req)
    \/ Finish
    \/ ClientKeep

Spec == Init /\ [][Next]_vars

(***************************************************************************)
(* Properties of the segmenter.                                            *)
(***************************************************************************)
Content == request.rfp_content
N == Len(Content)
Step == chunk_size - overlap

\* A procesarPliego call has returned its result.
PliegoDone == pc = "done" /\ request.op = "procesarPliego"
PliegoOk == PliegoDone /\ response.http = 200

\* The character positions (0-based) a window claims.
Range(c) == c.start_pos .. (c.end_pos - 1)
Covered == UNION { Range(chunks[k]) : k \in 1..Len(chunks) }

\* The start offsets 0, s, 2s, ... below n.
Starts(n, s) == { k \in 0..(n - 1) : k % s = 0 }

OneWholeWindow ==
    /\ response.http = 200
    /\ Len(chunks) = 1
    /\ chunks[1].start_pos = 0
    /\ chunks[1].end_pos = N
    /\ chunks[1].size = N

\* C1 as stated: under the defaults (2000, 200) a text of 1..2000 characters
\* with a non-blank character gives exactly one window, spanning the text.
C1_OneWindowUpToSize ==
    ( /\ PliegoDone
      /\ chunk_size = DefaultChunkSize /\ overlap = DefaultChunkOverlap
      /\ 1 <= N /\ N <= DefaultChunkSize
      /\ PyStripTruthy(Content) )
    => OneWholeWindow

\* C1 amended: under the defaults (2000, 200) a text of 1..1800 characters
\* (the stride, 2000 - 200) with a non-blank character gives exactly one
\* window, spanning the text.
C1_OneWindowUpToStride ==
    ( /\ PliegoDone
      /\ chunk_size = DefaultChunkSize /\ overlap = DefaultChunkOverlap
      /\ 1 <= N /\ N <= DefaultChunkSize - DefaultChunkOverlap
      /\ PyStripTruthy(Content) )
    => OneWholeWindow

C1_Witness ==
    /\ PliegoDone
    /\ chunk_size = DefaultChunkSize /\ overlap = DefaultChunkOverlap
    /\ N = DefaultChunkSize - DefaultChunkOverlap
    /\ OneWholeWindow

ValidConfig == chunk_size > 0 /\ 0 <= overlap /\ overlap < chunk_size

\* C2 as stated: with windowSize > 0 and 0 <= overlap < windowSize the windows'
\* ranges cover exactly [0, len(text)), and consecutive windows other than the
\* pair ending in the final window share exactly `overlap` characters.
C2_RoundTrip ==
    (PliegoDone /\ ValidConfig)
    => /\ response.http = 200
       /\ Covered = 0..(N - 1)
       /\ \A k \in 1..(Len(chunks) - 2) :
              chunks[k].end_pos - chunks[k + 1].start_pos = overlap

\* C2 amended: with effective windowSize > 0 and 0 <= overlap < windowSize the
\* windows' ranges lie in [0, len(text)) and contain every position holding a
\* non-blank character; they cover exactly [0, len(text)) when no slice was
\* skipped; and two consecutive windows with no skipped slice between them,
\* the earlier not cut short by the end of the text, share exactly `overlap`
\* characters.
C2_Coverage ==
    (PliegoDone /\ ValidConfig)
    => /\ response.http = 200
       /\ Covered \subseteq 0..(N - 1)
       /\ \A p \in 1..N : Content[p] \notin Whitespace => (p - 1) \in Covered
       /\ Len(chunks) = Cardinality(Starts(N, Step)) => Covered = 0..(N - 1)
       /\ \A k \in 1..(Len(chunks) - 1) :
              ( /\ chunks[k + 1].start_pos = chunks[k].start_pos + Step
                /\ chunks[k].start_pos + chunk_size <= N )
              => chunks[k].end_pos - chunks[k + 1].start_pos = overlap

\* A run with a skipped blank slice between windows and a window cut short
\* before the final pair.
C2_Witness ==
    /\ PliegoOk /\ ValidConfig
    /\ Len(chunks) >= 3
    /\ Covered # 0..(N - 1)
    /\ \E k \in 1..(Len(chunks) - 1) :
           chunks[k].end_pos - chunks[k + 1].start_pos = overlap

\* C3 as stated: a request whose effective parameters give
\* windowSize - overlap <= 0 ends in an error (HTTP 500), never in a success.
C3_InvalidStrideRejected ==
    (PliegoDone /\ Step <= 0) => response.http = 500

\* The windows the stride s = w - o gives on a text: the non-blank slices at
\* 0, s, 2s, ... in order, each ending at min(start + w, len).
RECURSIVE StrideWindows(_, _, _, _)
StrideWindows(text, w, o, from) ==
    IF from >= Len(text) THEN << >>
    ELSE LET slice == SubSeq(text, from + 1, Min(from + w, Len(text)))
             rest == StrideWindows(text, w, o, from + (w - o))
         IN  IF PyStripTruthy(slice)
             THEN << << from, Min(from + w, Len(text)) >> >> \o rest
             ELSE rest

Offsets == [k \in 1..Len(chunks) |-> << chunks[k].start_pos, chunks[k].end_pos >>]

\* C4 as stated: for a request with windowSize > 0 and 0 <= overlap < windowSize
\* (overlap = 0 included) the windows are the non-blank slices at 0, s, 2s, ...
\* with s = windowSize - overlap, each ending at min(start + windowSize, len).
C4_StrideWindows ==
    ( /\ PliegoDone
      /\ request.chunk_size # None /\ request.chunk_overlap # None
      /\ request.chunk_size[1] > 0
      /\ 0 <= request.chunk_overlap[1]
      /\ request.chunk_overlap[1] < request.chunk_size[1] )
    => /\ response.http = 200
       /\ Offsets = StrideWindows(Content, request.chunk_size[1],
                                  request.chunk_overlap[1], 0)

\* C10: the windows carry the ids 1..N without gaps, their start offsets grow
\* with the id, and the result reports N as chunks_created and total_chunks.
C10_Numbering ==
    /\ \A k \in 1..Len(chunks) : chunks[k].id = k
    /\ \A k \in 1..(Len(chunks) - 1) : chunks[k].start_pos < chunks[k + 1].start_pos
    /\ PliegoOk => /\ response.chunks_created = Len(chunks)
                   /\ response.chunks_info.total_chunks = Len(chunks)

\* A result with a skipped blank slice between two of its windows.
C10_Witness ==
    /\ PliegoOk
    /\ Len(chunks) >= 2
    /\ \E k \in 1..(Len(chunks) - 1) :
           chunks[k + 1].start_pos > chunks[k].start_pos + Step
    /\ response.chunks_created = Len(chunks)

(***************************************************************************)
(* Properties of the classifier.                                           *)
(***************************************************************************)
\* The keyword groups of each axis, in the order the claim fixes.
OfferGroups == << << "Cloud", CloudWords >>, << "Seguridad", SeguridadWords >>,
                  << "Telco", TelcoWords >> >>
ClientGroups == << << "Público", PublicoWords >> >>
SectorGroups == << << "Salud", SaludWords >>, << "Educación", EducacionWords >>,
                   << "Financiero", FinancieroWords >>,
                   << "Industrial", IndustrialWords >> >>

Matching(groups, text) ==
    { g \in 1..Len(groups) : AnyWordIn(groups[g][2], text) }

Folded == PyLower(Content)

\* A success response carries the labels the handler computed.
LabelsReturned ==
    response.http = 200
    => /\ response.classification.tipo_oferta = tipo_oferta
       /\ response.classification.tipo_cliente = tipo_cliente
       /\ response.classification.sector = sector

\* The group g is the earliest of its axis with a keyword in the folded text.
Earliest(groups, g) ==
    /\ g \in Matching(groups, Folded)
    /\ \A h \in 1..(g - 1) : h \notin Matching(groups, Folded)

\* C5: on every axis the label is that of the earliest group, in the fixed
\* order, that has a keyword in the case-folded text.
C5_FirstMatchWins ==
    PliegoDone =>
      /\ LabelsReturned
      /\ \A g \in 1..Len(OfferGroups) :
           Earliest(OfferGroups, g) => tipo_oferta = OfferGroups[g][1]
      /\ \A g \in 1..Len(ClientGroups) :
           Earliest(ClientGroups, g) => tipo_cliente = ClientGroups[g][1]
      /\ \A g \in 1..Len(SectorGroups) :
           Earliest(SectorGroups, g) => sector = SectorGroups[g][1]

\* A text with a Cloud keyword and a Security keyword, classified as Cloud.
C5_Witness ==
    /\ PliegoOk
    /\ { 1, 2 } \subseteq Matching(OfferGroups, Folded)
    /\ response.classification.tipo_oferta = "Cloud"

\* C6: every call computes one label per axis, each from the axis's set, and
\* an axis none of whose keywords occurs in the case-folded text gets its
\* default (DX, Privado, General).
C6_TotalAndClosed ==
    PliegoDone =>
      /\ LabelsReturned
      /\ tipo_oferta \in { "Cloud", "Seguridad", "Telco", "DX" }
      /\ tipo_cliente \in { "Público", "Privado" }
      /\ sector \in { "Salud", "Educación", "Financiero", "Industrial", "General" }
      /\ Matching(OfferGroups, Folded) = { } => tipo_oferta = "DX"
      /\ Matching(ClientGroups, Folded) = { } => tipo_cliente = "Privado"
      /\ Matching(SectorGroups, Folded) = { } => sector = "General"

\* A text with characters and no keyword of any axis, given the three defaults.
C6_Witness ==
    /\ PliegoOk
    /\ N > 0
    /\ Matching(OfferGroups, Folded) = { }
    /\ Matching(ClientGroups, Folded) = { }
    /\ Matching(SectorGroups, Folded) = { }
    /\ response.classification.tipo_oferta = "DX"
    /\ response.classification.tipo_cliente = "Privado"
    /\ response.classification.sector = "General"

(***************************************************************************)
(* Properties of the lookups.                                              *)
(***************************************************************************)
ListDone == pc = "done" /\ request.op = "listarOfertas"

\* C7: for limit >= 1 and offset >= 0 the page holds
\* min(limit, max(0, 2 - offset)) records, total_offers is 2, and has_more is
\* true exactly when offset + limit < 2.
C7_Pagination ==
    (ListDone /\ request.limit >= 1 /\ request.offset >= 0)
    => /\ response.http = 200
       /\ Len(response.offers) = Min(request.limit, Max(0, 2 - request.offset))
       /\ response.total_offers = 2
       /\ response.pagination.has_more = (request.offset + request.limit < 2)

\* limit = 1, offset = 0: one record and has_more.
C7_Witness ==
    /\ ListDone
    /\ request.limit = 1 /\ request.offset = 0
    /\ Len(response.offers) = 1
    /\ response.pagination.has_more = TRUE

\* C8: a lookup answers as the same lookup answered before, whatever was
\* called in between, in every field that is neither random nor a time; the
\* status of an offer id is the fixed record also when the client holds a
\* procesarPliego result for that id.
C8_NoStateCarried ==
    /\ ( /\ pc = "done"
         /\ request.op \in { "obtenerEstadoOferta", "listarOfertas" }
         /\ reference.request = request )
       => StableView(request.op, response) = reference.answer
    /\ ( /\ pc = "done"
         /\ request.op = "obtenerEstadoOferta"
         /\ delivered.offer_id = request.offer_id )
       => /\ response.offer_id = request.offer_id
          /\ response.chunks_info.total_chunks = EstadoTotalChunks
          /\ response.classification.tipo_oferta = "DX"

\* The status of an offer id asked before the id was issued and again after
\* procesarPliego returned it with another classification and window count.
C8_Witness ==
    /\ pc = "done"
    /\ request.op = "obtenerEstadoOferta"
    /\ reference.request = request
    /\ ~ reference.known
    /\ delivered.offer_id = request.offer_id
    /\ delivered.classification.tipo_oferta = "Cloud"
    /\ delivered.chunks_created # response.chunks_info.total_chunks

(***************************************************************************)
(* Termination of procesar_pliego.                                         *)
(***************************************************************************)
\* C9: every iteration of the windowing loop brings the index nearer to the
\* end of the text, a request in the loop ends with a response, and that
\* response is a success or an error.
C9_Completes ==
    /\ [][ (pc = "chunking" /\ pc' = "chunking")
           => /\ i < Len(request.rfp_content)
              /\ Len(request.rfp_content) - i' < Len(request.rfp_content) - i ]_vars
    /\ [](PliegoDone => response.http \in { 200, 500 })
    /\ (pc = "chunking") ~> (pc = "done")

\* A request on a text with characters whose stride is zero, answered with an
\* error instead of looping.
C9_Witness ==
    /\ PliegoDone
    /\ N > 0
    /\ Step = 0
    /\ response.http = 500

====
